---- MODULE Spec2Model ----
(***************************************************************************)
(* SGD with momentum, weight decay and Adaptive Gradient Clipping          *)
(* (src/optim.py): unitwise_norm, SGD_AGC.__init__ and SGD_AGC.step.       *)
(*                                                                         *)
(* Numbers are exact rationals <<n, d>> in lowest terms with d > 0, so     *)
(* 0.9, 1e-3 and 1e-6 are the program's values and not roundings of them.  *)
(* A tensor is [shape |-> <<d1, ..., dr>>, data |-> row-major elements].   *)
(***************************************************************************)
EXTENDS Integers, Sequences, FiniteSets, TLC

\* Python's None: an absent gradient, buffer, clip factor, closure or loss.
None == <<>>

(***************************************************************************)
(* Rational arithmetic: the tensor runtime's elementwise + - * / max > .   *)
(***************************************************************************)
Abs(n) == IF n < 0 THEN -n ELSE n

RECURSIVE GCD(_, _)
GCD(a, b) == IF b = 0 THEN a ELSE GCD(b, a % b)

Frac(n, d) ==
    LET s == IF d < 0 THEN -1 ELSE 1
        g == GCD(Abs(n), Abs(d))
    IN  <<(s * n) \div g, (s * d) \div g>>

R(n) == <<n, 1>>

RNeg(a) == <<-a[1], a[2]>>

RAbs(a) == <<Abs(a[1]), a[2]>>

RAdd(a, b) ==
    LET g == GCD(a[2], b[2])
    IN  Frac(a[1] * (b[2] \div g) + b[1] * (a[2] \div g), (a[2] \div g) * b[2])

RSub(a, b) == RAdd(a, RNeg(b))

\* Cross-reduced before multiplying, so that 1e6 * 1e-3 stays in range.
RMul(a, b) ==
    LET g1 == GCD(Abs(a[1]), b[2])
        g2 == GCD(Abs(b[1]), a[2])
    IN  Frac((a[1] \div g1) * (b[1] \div g2), (a[2] \div g2) * (b[2] \div g1))

\* a / b for b # 0.
RDiv(a, b) == RMul(a, IF b[1] < 0 THEN <<-b[2], -b[1]>> ELSE <<b[2], b[1]>>)

\* a/b < c/d for b, d > 0, by integer parts first and then the remainders
\* (ra/b < rc/d  <=>  d/rc < b/ra), which never multiplies across.
RECURSIVE FracLess(_, _, _, _)
FracLess(a, b, c, d) ==
    LET fa == a \div b
        fc == c \div d
        ra == a % b
        rc == c % d
    IN  IF fa # fc THEN fa < fc
        ELSE IF rc = 0 THEN FALSE
        ELSE IF ra = 0 THEN TRUE
        ELSE FracLess(d, rc, b, ra)

RLess(a, b) == FracLess(a[1], a[2], b[1], b[2])

RMax(a, b) == IF RLess(a, b) THEN b ELSE a

RECURSIVE RootFrom(_, _)
RootFrom(n, r) == IF (r + 1) * (r + 1) > n THEN r ELSE RootFrom(n, r + 1)

\* The integer square root; exact on perfect squares.
ISqrt(n) == RootFrom(n, 0)

\* torch.sqrt on a rational >= 0: exact on squares of rationals.
RSqrt(a) == Frac(ISqrt(a[1]), ISqrt(a[2]))

RECURSIVE RSum(_)
RSum(xs) == IF xs = <<>> THEN R(0) ELSE RAdd(Head(xs), RSum(Tail(xs)))

RECURSIVE RMaxAbs(_)
RMaxAbs(xs) == IF xs = <<>> THEN R(0) ELSE RMax(RAbs(Head(xs)), RMaxAbs(Tail(xs)))

\* sqrt(sum(square(xs))) of one unit.  The largest magnitude k is factored
\* out, sqrt(sum(x^2)) = k * sqrt(sum((x/k)^2)), which is the same number and
\* keeps the squares of values such as 1e-6 within the integers' range.
SqrtSumSquare(xs) ==
    LET k == RMaxAbs(xs)
        scaled == [i \in 1..Len(xs) |-> RMul(RDiv(xs[i], k), RDiv(xs[i], k))]
    IN  IF k = R(0) THEN R(0) ELSE RMul(k, RSqrt(RSum(scaled)))

(***************************************************************************)
(* Tensors: shapes, row-major indexing, reduction and broadcasting.        *)
(***************************************************************************)
RECURSIVE Size(_)
Size(shape) == IF shape = <<>> THEN 1 ELSE Head(shape) * Size(Tail(shape))

\* The coordinate along axis j (1-based) of the element at flat index k (0-based).
Coord(k, shape, j) == (k \div Size(SubSeq(shape, j + 1, Len(shape)))) % shape[j]

\* torch.squeeze(x).shape: the dimensions of size 1 dropped.
Squeeze(shape) == SelectSeq(shape, LAMBDA n : n # 1)

\* The positions of `shape` that are not in `axes`, ascending.
RECURSIVE KeptFrom(_, _, _)
KeptFrom(shape, axes, j) ==
    IF j > Len(shape) THEN <<>>
    ELSE (IF j \in axes THEN <<>> ELSE <<j>>) \o KeptFrom(shape, axes, j + 1)

Kept(shape, axes) == KeptFrom(shape, axes, 1)

\* The flat index, among the kept axes, of the element at flat index k.
RECURSIVE UnitFrom(_, _, _, _)
UnitFrom(k, shape, kept, acc) ==
    IF kept = <<>> THEN acc
    ELSE UnitFrom(k, shape, Tail(kept), acc * shape[Head(kept)] + Coord(k, shape, Head(kept)))

UnitOf(k, shape, axes) == UnitFrom(k, shape, Kept(shape, axes), 0)

\* Shape of a sum over `axes`: the reduced axes kept as size 1, or dropped.
\* A 0-d tensor summed over axis 0 stays 0-d.
ReducedShape(shape, axes, keepdims) ==
    IF keepdims
    THEN [j \in 1..Len(shape) |-> IF j \in axes THEN 1 ELSE shape[j]]
    ELSE [i \in 1..Len(Kept(shape, axes)) |-> shape[Kept(shape, axes)[i]]]

\* The elements of x, in order, that reduce into output entry u.
RECURSIVE UnitElems(_, _, _, _)
UnitElems(x, axes, u, k) ==
    IF k >= Size(x.shape) THEN <<>>
    ELSE (IF UnitOf(k, x.shape, axes) = u THEN <<x.data[k + 1]>> ELSE <<>>)
         \o UnitElems(x, axes, u, k + 1)

\* torch.sqrt(torch.sum(torch.square(x), axis=axes, keepdim=keepdims))
NormOver(x, axes, keepdims) ==
    LET out == ReducedShape(x.shape, axes, keepdims)
    IN  [raised |-> FALSE,
         shape  |-> out,
         data   |-> [u \in 1..Size(out) |-> SqrtSumSquare(UnitElems(x, axes, u - 1, 0))]]

ValueError == [raised |-> TRUE, shape |-> <<>>, data |-> <<>>]

\* Mutant: higher ranks are reduced like conv kernels instead of refused.
unitwise_norm_any_rank(x) ==
    IF Len(Squeeze(x.shape)) <= 1 THEN NormOver(x, {1}, FALSE)
    ELSE IF Len(x.shape) \in {2, 3} THEN NormOver(x, {2}, TRUE)
    ELSE NormOver(x, 2..Len(x.shape), TRUE)

\* Mutant: conv kernels fall into the branch of the linear layers.
unitwise_norm_linear(x) ==
    IF Len(Squeeze(x.shape)) <= 1 THEN NormOver(x, {1}, FALSE)
    ELSE IF Len(x.shape) \in {2, 3, 4} THEN NormOver(x, {2}, TRUE)
    ELSE ValueError

unitwise_norm(x) ==
    IF Len(Squeeze(x.shape)) <= 1 THEN NormOver(x, {1}, FALSE)
    ELSE IF Len(x.shape) \in {2, 3} THEN NormOver(x, {2}, TRUE)
    ELSE IF Len(x.shape) = 4 THEN NormOver(x, {2, 3, 4}, TRUE)
    ELSE ValueError

\* Broadcasting: the flat index in a tensor of shape `small`, right-aligned
\* against `shape`, that the element at flat index k of `shape` reads.
RECURSIVE BroadcastFrom(_, _, _, _, _)
BroadcastFrom(k, shape, small, i, acc) ==
    IF i > Len(small) THEN acc
    ELSE BroadcastFrom(k, shape, small, i + 1,
            acc * small[i]
            + (IF small[i] = 1 THEN 0
               ELSE Coord(k, shape, i + Len(shape) - Len(small))))

Broadcast(k, shape, small) == BroadcastFrom(k, shape, small, 1, 0)

(***************************************************************************)
(* Adaptive gradient clipping, the block of step() between the `=====`     *)
(* comment lines.  p and g are the parameter and its gradient (same shape).*)
(***************************************************************************)
\* The literal 1e-6 that floors grad_norm.
Tiny == <<1, 1000000>>

\* param_norm = torch.maximum(unitwise_norm(p), torch.tensor(eps))
param_norm(pn, eps) == [u \in 1..Len(pn.data) |-> RMax(pn.data[u], eps)]

\* max_norm = param_norm * group['clipping']
max_norm(pn, clipping, eps) ==
    [u \in 1..Len(pn.data) |-> RMul(param_norm(pn, eps)[u], clipping)]

\* Mutant: the comparison is turned around, grad_norm < max_norm.
trigger_mask_reversed(gn, mn) == [u \in 1..Len(gn.data) |-> RLess(gn.data[u], mn[u])]

\* trigger_mask = grad_norm > max_norm, one boolean per unit
trigger_mask(gn, mn) == [u \in 1..Len(gn.data) |-> RLess(mn[u], gn.data[u])]

\* Mutant: the floor is added to grad_norm, max_norm / (grad_norm + 1e-6).
clipped_grad_added_floor(g, gn, mn, k) ==
    LET u == Broadcast(k - 1, g.shape, gn.shape) + 1
    IN  RMul(g.data[k], RDiv(mn[u], RAdd(gn.data[u], Tiny)))

\* Element k of clipped_grad = p.grad * (max_norm / torch.maximum(grad_norm, 1e-6)),
\* the quotient broadcast to g's shape.
clipped_grad(g, gn, mn, k) ==
    LET u == Broadcast(k - 1, g.shape, gn.shape) + 1
    IN  RMul(g.data[k], RDiv(mn[u], RMax(gn.data[u], Tiny)))

\* torch.where(trigger_mask, clipped_grad, d_p), the mask broadcast to g's shape
Where(g, gn, mn, mask) ==
    [k \in 1..Len(g.data) |->
        IF mask[Broadcast(k - 1, g.shape, gn.shape) + 1]
        THEN clipped_grad(g, gn, mn, k)
        ELSE g.data[k]]

\* The clipping stage as a whole: the data of the new d_p, or the ValueError
\* that unitwise_norm raised (on p first, then on d_p).
AGC(p, g, clipping, eps) ==
    LET pn == unitwise_norm(p)
        gn == unitwise_norm(g)
        mn == max_norm(pn, clipping, eps)
    IN  IF clipping = None THEN [raised |-> FALSE, data |-> g.data]
        ELSE IF pn.raised \/ gn.raised THEN [raised |-> TRUE, data |-> <<>>]
        ELSE [raised |-> FALSE, data |-> Where(g, gn, mn, trigger_mask(gn, mn))]

(***************************************************************************)
(* State.                                                                  *)
(*   pc              where the program is: "new" before construction,      *)
(*                   "ConfigError" after a refused one, "idle" between     *)
(*                   calls of step(), "loop" inside step()'s loop; and the *)
(*                   stage of a pure-function run ("input", "norm", ...).  *)
(*   args            the constructor's arguments                           *)
(*   param_groups    self.param_groups                                     *)
(*   heap            tensor storages: location -> data, None if unused     *)
(*   grad            p.grad of each parameter: a location, or None         *)
(*   momentum_buffer self.state[p]['momentum_buffer']: a location, or None *)
(*   cur             position of step()'s loop in the parameter order      *)
(*   closure, calls, loss   the closure step() was given, how often it has *)
(*                   been invoked in this call, and the local `loss`;      *)
(*                   like cur, they are gone once step() has ended         *)
(*   ret             how the last step() ended, until the training loop    *)
(*                   moves on                                              *)
(*   steps           step() calls so far                                   *)
(*   pre             heap and buffers as the loop of the current (or last) *)
(*                   step() found them                                     *)
(*   tp, tg, tclip, teps, tnorm, tout, tout2   inputs and results of the   *)
(*                   pure functions unitwise_norm and the clipping stage   *)
(***************************************************************************)
VARIABLES pc, args, param_groups, heap, grad, momentum_buffer, cur,
          closure, calls, loss, ret, steps, pre,
          tp, tg, tclip, teps, tnorm, tout, tout2

optVars  == <<args, param_groups, heap, grad, momentum_buffer, cur,
              closure, calls, loss, ret, steps, pre>>
pureVars == <<tp, tg, tclip, teps, tnorm, tout, tout2>>
vars     == <<pc, optVars, pureVars>>

\* Bound of the model: the number of step() calls explored.
MaxSteps == 2

(***************************************************************************)
(* Construction: SGD_AGC.__init__.                                         *)
(***************************************************************************)
Hyper == {"lr", "momentum", "dampening", "weight_decay", "nesterov", "clipping", "eps"}

\* defaults = dict(lr=lr, momentum=momentum, ...)
defaults(a) == [k \in Hyper |-> a[k]]

\* The checks of __init__, on the constructor's own arguments.
ConfigError(a) ==
    \/ RLess(a.lr, R(0))
    \/ RLess(a.momentum, R(0))
    \/ RLess(a.weight_decay, R(0))
    \/ a.nesterov /\ (~RLess(R(0), a.momentum) \/ a.dampening # R(0))

\* super().__init__(params, defaults): each group keeps the keys it gives
\* and takes every other hyperparameter from defaults.
add_param_group(g, d) ==
    [k \in Hyper \cup {"params"} |-> IF k \in DOMAIN g THEN g[k] ELSE d[k]]

Groups(a) == [i \in 1..Len(a.params) |-> add_param_group(a.params[i], defaults(a))]

(***************************************************************************)
(* The parameters of the model the optimizer is stepping.                  *)
(***************************************************************************)
\* A vector, a rank-5 tensor with two dimensions larger than 1, a scalar.
ShapeOf == << <<2>>, <<2, 1, 1, 1, 2>>, <<>> >>

Params == 1..Len(ShapeOf)

PLoc(i) == <<"param", i>>
GLoc(i) == <<"grad", i>>
BLoc(i) == <<"buffer", i>>
Locs == {PLoc(i) : i \in Params} \cup {GLoc(i) : i \in Params} \cup {BLoc(i) : i \in Params}

Ints(xs) == [k \in 1..Len(xs) |-> R(xs[k])]

InitialValue == << Ints(<<3, 4>>), Ints(<<1, 0, 0, 1>>), Ints(<<2>>) >>

\* The gradients backward() can leave on each parameter: None, or a value.
GradChoices ==
    << {None, Ints(<<6, 8>>)},
       {None, Ints(<<1, 1, 1, 1>>)},
       {None, Ints(<<1>>), Ints(<<0>>)} >>

Backwards == {c \in [Params -> UNION {GradChoices[i] : i \in Params}] :
                 \A i \in Params : c[i] \in GradChoices[i]}

\* What a closure can be: the loss it returns and the gradients it leaves.
Closures ==
    {[loss |-> l, grads |-> c] :
        l \in {R(7)},
        c \in {b \in Backwards : b[1] # None /\ b[3] \in {None, Ints(<<1>>)}}}

\* Whether some momentum buffer lives in the storage at `loc`.
Referenced(mb, loc) == \E i \in Params : mb[i] = loc

\* backward() writing the gradients c: an existing .grad is written in place,
\* None drops the reference (the storage goes unless a buffer still holds it).
WriteGrads(h, mb, c) ==
    [l \in Locs |->
        IF \E i \in Params : l = GLoc(i)
        THEN LET i == CHOOSE j \in Params : l = GLoc(j)
             IN  IF c[i] # None THEN c[i]
                 ELSE IF Referenced(mb, l) THEN h[l] ELSE None
        ELSE h[l]]

GradRefs(c) == [i \in Params |-> IF c[i] = None THEN None ELSE GLoc(i)]

(***************************************************************************)
(* step(): one parameter's pass through the loop body.  d_p is a record    *)
(* [ref, data]: ref names the storage d_p aliases (d_p = p.grad, d_p =     *)
(* buf), or is None for a tensor the step has just made, held in data.     *)
(***************************************************************************)
Alias(loc) == [ref |-> loc, data |-> <<>>]
Fresh(data) == [ref |-> None, data |-> data]
Val(h, d) == IF d.ref # None THEN h[d.ref] ELSE d.data

Tensor(i, data) == [shape |-> ShapeOf[i], data |-> data]

\* x.add(y, alpha=alpha), elementwise
Add(xs, ys, alpha) == [k \in 1..Len(xs) |-> RAdd(xs[k], RMul(alpha, ys[k]))]

\* x.mul(c), elementwise
Mul(xs, c) == [k \in 1..Len(xs) |-> RMul(xs[k], c)]

\* The parameters in the order the loops visit them, each with its group.
RECURSIVE OrderFrom(_, _)
OrderFrom(groups, gi) ==
    IF gi > Len(groups) THEN <<>>
    ELSE [k \in 1..Len(groups[gi].params) |-> [group |-> gi, param |-> groups[gi].params[k]]]
         \o OrderFrom(groups, gi + 1)

Order == OrderFrom(param_groups, 1)

\* Mutant: weight decay reaches a parameter that has no gradient.
SkipParamDecayed(h, mb, i, G) ==
    [raised |-> FALSE,
     heap |-> [h EXCEPT ![PLoc(i)] = Add(h[PLoc(i)], Mul(h[PLoc(i)], G.weight_decay), RNeg(G.lr))],
     momentum_buffer |-> mb]

\* `if p.grad is None: continue`: what the skipped parameter's pass leaves.
SkipParam(h, mb, i, G) == [raised |-> FALSE, heap |-> h, momentum_buffer |-> mb]

\* The clipping stage on d_p = p.grad.
Clip(h, i, G, d) ==
    IF G.clipping = None THEN [raised |-> FALSE, d |-> d]
    ELSE LET r == AGC(Tensor(i, h[PLoc(i)]), Tensor(i, Val(h, d)), G.clipping, G.eps)
         IN  [raised |-> r.raised, d |-> Fresh(r.data)]

\* if weight_decay != 0: d_p = d_p.add(p, alpha=weight_decay)
WeightDecay(h, i, G, d) ==
    IF G.weight_decay # R(0) THEN Fresh(Add(Val(h, d), h[PLoc(i)], G.weight_decay)) ELSE d

\* Mutant: buf = d_p without the clone: the buffer is the tensor d_p is.
NoClone(i, d) == IF d.ref # None THEN d.ref ELSE BLoc(i)

\* torch.clone(d_p).detach(): the storage of the new buffer.
CloneDetach(i, d) == BLoc(i)

\* Mutant: dampening is applied to the first buffer too.
NewBufferDampened(h, d, G) == Mul(Val(h, d), RSub(R(1), G.dampening))

\* The value the new buffer holds.
NewBuffer(h, d, G) == Val(h, d)

\* Mutant: the buffer is not decayed, buf.add_(d_p, alpha=1 - dampening).
BufferUpdateNoDecay(h, loc, d, G) ==
    [h EXCEPT ![loc] = Add(h[loc], Val(h, d), RSub(R(1), G.dampening))]

\* buf.mul_(momentum).add_(d_p, alpha=1 - dampening), in place on buf's
\* storage; d_p is read after mul_ has written.
BufferUpdate(h, loc, d, G) ==
    LET h1 == [h EXCEPT ![loc] = Mul(h[loc], G.momentum)]
    IN  [h1 EXCEPT ![loc] = Add(h1[loc], Val(h1, d), RSub(R(1), G.dampening))]

\* d_p = d_p.add(buf, alpha=momentum) if nesterov, else d_p = buf
Combined(h, loc, d, G) ==
    IF G.nesterov THEN Fresh(Add(Val(h, d), h[loc], G.momentum)) ELSE Alias(loc)

\* The `if momentum != 0` block.
Momentum(h, mb, i, G, d) ==
    IF G.momentum = R(0) THEN [heap |-> h, momentum_buffer |-> mb, d |-> d]
    ELSE LET loc == IF mb[i] = None THEN CloneDetach(i, d) ELSE mb[i]
             h1  == IF mb[i] = None
                    THEN [h EXCEPT ![loc] = NewBuffer(h, d, G)]
                    ELSE BufferUpdate(h, loc, d, G)
         IN  [heap |-> h1,
              momentum_buffer |-> [mb EXCEPT ![i] = loc],
              d |-> Combined(h1, loc, d, G)]

\* p.add_(d_p, alpha=-group['lr'])
ApplyUpdate(h, i, G, d) == [h EXCEPT ![PLoc(i)] = Add(h[PLoc(i)], Val(h, d), RNeg(G.lr))]

\* The loop body for a parameter that has a gradient.
UpdateParam(h, mb, i, G) ==
    LET c == Clip(h, i, G, Alias(grad[i]))
        m == Momentum(h, mb, i, G, WeightDecay(h, i, G, c.d))
    IN  IF c.raised THEN [raised |-> TRUE, heap |-> h, momentum_buffer |-> mb]
        ELSE [raised |-> FALSE,
              heap |-> ApplyUpdate(m.heap, i, G, m.d),
              momentum_buffer |-> m.momentum_buffer]

\* Mutant: step() ends without `return loss`.
ReturnNothing == None

\* step()'s return value.
ReturnValue == loss

NoReturn == [kind |-> "none", value |-> None, at |-> 0]

Snapshot(h, g, mb) == [heap |-> h, grad |-> g, momentum_buffer |-> mb]

(***************************************************************************)
(* Actions of the optimizer.                                               *)
(***************************************************************************)
\* loss.backward() or zero_grad() by the training loop, between steps.
Backward ==
    /\ pc = "idle"
    /\ steps < MaxSteps
    /\ \E c \in Backwards :
          /\ heap' = WriteGrads(heap, momentum_buffer, c)
          /\ grad' = GradRefs(c)
    /\ pre' = Snapshot(heap', grad', momentum_buffer)
    /\ ret' = NoReturn
    /\ UNCHANGED <<pc, args, param_groups, momentum_buffer, cur, closure, calls,
                   loss, steps, pureVars>>

\* step(closure) up to the loops: `loss = None`, then the closure, if any.
StepBegin ==
    /\ pc = "idle"
    /\ steps < MaxSteps
    /\ \E c \in {None} \cup Closures :
          /\ closure' = c
          /\ IF c # None
             THEN /\ calls' = 1
                  /\ loss' = c.loss
                  /\ heap' = WriteGrads(heap, momentum_buffer, c.grads)
                  /\ grad' = GradRefs(c.grads)
             ELSE /\ calls' = 0
                  /\ loss' = None
                  /\ UNCHANGED <<heap, grad>>
    /\ pc' = "loop"
    /\ cur' = 1
    /\ steps' = steps + 1
    /\ ret' = NoReturn
    /\ pre' = Snapshot(heap', grad', momentum_buffer)
    /\ UNCHANGED <<args, param_groups, momentum_buffer, pureVars>>

\* One pass of `for p in group['params']` for the parameter i of group G, with
\* outcome r, raising the ValueError of unitwise_norm out of step() if it comes.
StepParam ==
    /\ pc = "loop"
    /\ cur <= Len(Order)
    /\ \E i \in {Order[cur].param}, G \in {param_groups[Order[cur].group]} :
          \E r \in {IF grad[i] = None
                    THEN SkipParam(heap, momentum_buffer, i, G)
                    ELSE UpdateParam(heap, momentum_buffer, i, G)} :
              /\ heap' = r.heap
              /\ momentum_buffer' = r.momentum_buffer
              /\ IF r.raised
                 THEN /\ pc' = "idle"
                      /\ ret' = [kind |-> "ValueError", value |-> None, at |-> i]
                      /\ cur' = 0
                      /\ closure' = None
                      /\ calls' = 0
                      /\ loss' = None
                 ELSE /\ cur' = cur + 1
                      /\ UNCHANGED <<pc, ret, closure, calls, loss>>
    /\ UNCHANGED <<args, param_groups, grad, steps, pre, pureVars>>

\* `return loss` after the loops.
StepReturn ==
    /\ pc = "loop"
    /\ cur = Len(Order) + 1
    /\ pc' = "idle"
    /\ ret' = [kind |-> "return", value |-> ReturnValue, at |-> 0]
    /\ cur' = 0
    /\ closure' = None
    /\ calls' = 0
    /\ loss' = None
    /\ UNCHANGED <<args, param_groups, heap, grad, momentum_buffer, steps, pre, pureVars>>

(***************************************************************************)
(* Specification of the optimizer: a constructed SGD_AGC, the training     *)
(* loop computing gradients and calling step().                            *)
(***************************************************************************)
Flat == << [params |-> <<1, 2, 3>>] >>

Grouped(override) == << [params |-> <<1, 2>>], override @@ [params |-> <<3>>] >>

Tenth == <<1, 10>>
Half == <<1, 2>>
DefaultEps == <<1, 1000>>

ArgsOver(layouts, lrs, momenta, dampenings, decays, clippings) ==
    {[params |-> l, lr |-> lr, momentum |-> m, dampening |-> d, weight_decay |-> w,
      nesterov |-> n, clipping |-> c, eps |-> DefaultEps] :
        l \in layouts, lr \in lrs, m \in momenta, d \in dampenings, w \in decays,
        n \in BOOLEAN, c \in clippings}

\* Constructor arguments of the optimizers that are stepped.
StepArgs ==
    ArgsOver({Flat}, {Tenth}, {R(0), <<9, 10>>}, {R(0), Half}, {R(0), Tenth}, {None, Half})
    \cup ArgsOver({Grouped([nesterov |-> TRUE, dampening |-> Half]),
                   Grouped([clipping |-> None, momentum |-> R(0)])},
                  {Tenth}, {<<9, 10>>}, {R(0)}, {R(0)}, {Half})

IdlePure ==
    /\ tp = None /\ tg = None /\ tclip = None /\ teps = None
    /\ tnorm = None /\ tout = None /\ tout2 = None

\* The model's parameters as the optimizer first sees them: no gradient yet.
InitialHeap ==
    [l \in Locs |-> IF \E i \in Params : l = PLoc(i)
                    THEN InitialValue[CHOOSE i \in Params : l = PLoc(i)]
                    ELSE None]

NoRefs == [i \in Params |-> None]

Constructed(a) ==
    /\ args = a
    /\ param_groups = Groups(a)
    /\ heap = InitialHeap
    /\ grad = NoRefs
    /\ momentum_buffer = NoRefs

Init ==
    /\ pc = "idle"
    /\ \E a \in StepArgs : ~ConfigError(a) /\ Constructed(a)
    /\ cur = 0 /\ closure = None /\ calls = 0 /\ loss = None
    /\ ret = NoReturn
    /\ steps = 0
    /\ pre = Snapshot(heap, grad, momentum_buffer)
    /\ IdlePure

Next == Backward \/ StepBegin \/ StepParam \/ StepReturn

Spec == Init /\ [][Next]_vars

(***************************************************************************)
(* Specification of construction alone, over a wider set of arguments.     *)
(***************************************************************************)
Overrides ==
    {[nesterov |-> TRUE], [lr |-> RNeg(Tenth)], [momentum |-> R(0)],
     [dampening |-> Half], [weight_decay |-> RNeg(Tenth)]}

AllArgs ==
    ArgsOver({Flat} \cup {Grouped(o) : o \in Overrides},
             {RNeg(Tenth), R(0), Tenth}, {R(-1), R(0), <<9, 10>>}, {R(0), Half},
             {RNeg(Tenth), R(0), Tenth}, {None, Half})

NewInit ==
    /\ pc = "new"
    /\ args \in AllArgs
    /\ param_groups = <<>>
    /\ heap = InitialHeap
    /\ grad = NoRefs
    /\ momentum_buffer = NoRefs
    /\ cur = 0 /\ closure = None /\ calls = 0 /\ loss = None
    /\ ret = NoReturn
    /\ steps = 0
    /\ pre = Snapshot(heap, grad, momentum_buffer)
    /\ IdlePure

\* SGD_AGC(params, lr, ...): raises, or leaves an optimizer with its groups.
New ==
    /\ pc = "new"
    /\ IF ConfigError(args)
       THEN pc' = "ConfigError" /\ UNCHANGED param_groups
       ELSE pc' = "idle" /\ param_groups' = Groups(args)
    /\ UNCHANGED <<args, heap, grad, momentum_buffer, cur, closure, calls, loss,
                   ret, steps, pre, pureVars>>

SpecNew == NewInit /\ [][New]_vars

(***************************************************************************)
(* Specification of the pure functions: unitwise_norm and the clipping     *)
(* stage applied to tensors drawn from bounded sets.                       *)
(***************************************************************************)
PureShapes ==
    { <<>>, <<2>>, <<1, 2>>, <<2, 1>>, <<2, 2>>, <<2, 1, 2>>,
      <<2, 2, 1, 1>>, <<2, 1, 1, 2>>, <<2, 1, 1, 1>>, <<1, 2, 1, 1>>, <<1, 1, 1, 1>>,
      <<2, 2, 1, 2>>, <<1, 1, 1, 1, 2>>, <<2, 1, 1, 1, 2>> }

\* Element patterns by element count; every unit of every shape above has a
\* rational norm on them.
Patterns(n) ==
    CASE n = 1 -> {<<0>>, <<1>>, <<-2>>}
      [] n = 2 -> {<<3, 4>>, <<0, 0>>, <<-4, 3>>, <<0, 2>>}
      [] n = 4 -> {<<3, 4, 0, 0>>, <<0, 0, 0, 0>>, <<3, -4, 12, 0>>}
      [] n = 8 -> {<<3, 4, 12, 0, 0, 0, -5, 0>>, <<1, 1, 1, 1, 0, 0, 0, 0>>}

TensorsOf(shape, scales) ==
    {[shape |-> shape, data |-> Mul(Ints(pat), sc)] :
        pat \in Patterns(Size(shape)), sc \in scales}

ParamScales == {R(1), <<1, 1000>>}
EpsValues == {DefaultEps, R(0)}

\* Clip factors with the gradient magnitudes each is tried on: from 1e-7 to
\* 1e3 times the patterns, paired so that every quotient the clipping stage
\* forms stays within the integers' range.
Regimes ==
    { [clips |-> {None, Half, R(0), RNeg(Half)}, scales |-> {R(1), R(1000), <<1, 10000000>>}],
      [clips |-> {<<1, 10000>>},                 scales |-> {R(1), <<1, 10000000>>}],
      [clips |-> {R(1000000)},                   scales |-> {R(1), R(1000)}] }

PureInit ==
    /\ pc = "input"
    /\ \E shape \in PureShapes, regime \in Regimes :
          /\ tp \in TensorsOf(shape, ParamScales)
          /\ tg \in TensorsOf(shape, regime.scales)
          /\ tclip \in regime.clips
    /\ teps \in EpsValues
    /\ tnorm = None /\ tout = None /\ tout2 = None
    /\ args = None
    /\ param_groups = <<>>
    /\ heap = InitialHeap
    /\ grad = NoRefs
    /\ momentum_buffer = NoRefs
    /\ cur = 0 /\ closure = None /\ calls = 0 /\ loss = None
    /\ ret = NoReturn
    /\ steps = 0
    /\ pre = Snapshot(heap, grad, momentum_buffer)

\* unitwise_norm(p)
ApplyNorm ==
    /\ pc = "input"
    /\ pc' = "norm"
    /\ tnorm' = unitwise_norm(tp)
    /\ UNCHANGED <<optVars, tp, tg, tclip, teps, tout, tout2>>

\* The clipping stage on (p, g).
ApplyClip ==
    /\ pc = "input"
    /\ pc' = "clipped"
    /\ tout' = AGC(tp, tg, tclip, teps)
    /\ UNCHANGED <<optVars, tp, tg, tclip, teps, tnorm, tout2>>

\* The clipping stage on its own output.
ApplyClipAgain ==
    /\ pc = "clipped"
    /\ ~tout.raised
    /\ pc' = "reclipped"
    /\ tout2' = AGC(tp, [shape |-> tg.shape, data |-> tout.data], tclip, teps)
    /\ UNCHANGED <<optVars, tp, tg, tclip, teps, tnorm, tout>>

PureNext == ApplyNorm \/ ApplyClip \/ ApplyClipAgain

SpecPure == PureInit /\ [][PureNext]_vars

(***************************************************************************)
(* Vocabulary of the properties.                                           *)
(***************************************************************************)
\* The group a parameter belongs to.
GroupOf(i) ==
    param_groups[CHOOSE gi \in 1..Len(param_groups) :
                    \E k \in 1..Len(param_groups[gi].params) : param_groups[gi].params[k] = i]

\* The loop is about to run its body for parameter i.
Visiting(i) == pc = "loop" /\ cur <= Len(Order) /\ Order[cur].param = i

\* The value of parameter i's momentum buffer in heap h under references mb.
BufferIn(h, mb, i) == h[mb[i]]

\* i's value and buffer are what the loop of this step() found.
Untouched(i) ==
    /\ heap[PLoc(i)] = pre.heap[PLoc(i)]
    /\ momentum_buffer[i] = pre.momentum_buffer[i]
    /\ momentum_buffer[i] # None =>
          BufferIn(heap, momentum_buffer, i) = BufferIn(pre.heap, pre.momentum_buffer, i)

\* --- C1 ---------------------------------------------------------------
\* C1: in every step(), a parameter whose gradient is absent keeps its value,
\* gets no momentum buffer, keeps the buffer it has unchanged, and is not the
\* parameter an error is raised for, whatever momentum, weight_decay, nesterov
\* and clipping its group has.
C1_AbsentGradientUntouched ==
    \A i \in Params :
        pre.grad[i] = None =>
            /\ Untouched(i)
            /\ ~(ret.kind = "ValueError" /\ ret.at = i)

\* A finished step() that skipped a parameter holding a buffer, in a group with
\* weight decay and momentum, while it updated another parameter.
C1_Witness ==
    /\ ret.kind = "return"
    /\ \E i \in Params :
          /\ pre.grad[i] = None
          /\ pre.momentum_buffer[i] # None
          /\ GroupOf(i).weight_decay # R(0)
          /\ GroupOf(i).clipping # None
    /\ \E j \in Params : heap[PLoc(j)] # pre.heap[PLoc(j)]

\* The direction d of parameter i's pass, from the state the pass starts in:
\* the gradient after the clipping stage, plus weight_decay times the value
\* the parameter has before the update.
Direction(i) ==
    Add(AGC(Tensor(i, heap[PLoc(i)]), Tensor(i, heap[grad[i]]),
            GroupOf(i).clipping, GroupOf(i).eps).data,
        heap[PLoc(i)], GroupOf(i).weight_decay)

\* This transition is a pass of the loop body that updates parameter i with
\* momentum (it has a gradient, and no error ends the step).
MomentumPass(i) ==
    /\ Visiting(i)
    /\ grad[i] # None
    /\ GroupOf(i).momentum # R(0)
    /\ pc' = "loop"

\* --- C2 ---------------------------------------------------------------
\* C2: with momentum != 0 the stored buffer follows the recurrence: the first
\* pass with a gradient stores d, every later one stores
\* momentum * previous_buffer + (1 - dampening) * d; and between the passes of
\* a parameter its buffer is neither replaced nor changed, so the value one
\* step writes is the value the next step reads.
C2_BufferRecurrence ==
    [][\A i \in Params :
          /\ MomentumPass(i) =>
                /\ momentum_buffer'[i] # None
                /\ BufferIn(heap', momentum_buffer', i) =
                      IF momentum_buffer[i] = None
                      THEN Direction(i)
                      ELSE Add(Mul(BufferIn(heap, momentum_buffer, i), GroupOf(i).momentum),
                               Direction(i), RSub(R(1), GroupOf(i).dampening))
          /\ ~Visiting(i) =>
                /\ momentum_buffer'[i] = momentum_buffer[i]
                /\ momentum_buffer[i] # None =>
                      BufferIn(heap', momentum_buffer', i) = BufferIn(heap, momentum_buffer, i)
      ]_vars

\* The example: momentum 0.9, dampening 0, gradients 1.0 then 1.0 on the scalar
\* 2.0 with lr 0.1: the buffer is 1.9 after the second step, whose update
\* direction 1.9 took the parameter from 1.9 to 1.71.
C2_Witness ==
    /\ GroupOf(3).momentum = <<9, 10>>
    /\ GroupOf(3).dampening = R(0)
    /\ steps = 2
    /\ ret.kind = "return"
    /\ momentum_buffer[3] # None
    /\ BufferIn(heap, momentum_buffer, 3) = << <<19, 10>> >>
    /\ pre.heap[PLoc(3)] = << <<19, 10>> >>
    /\ heap[PLoc(3)] = << <<171, 100>> >>

\* --- C3 ---------------------------------------------------------------
\* C3: a closure given to step() is invoked exactly once, on entry, before the
\* loop changes any parameter value or buffer (the invocation itself changes
\* none), and never during the loop; step() returns the closure's result, and
\* without a closure nothing is invoked and None is returned.
C3_ClosureOnceBeforeUpdates ==
    [][/\ (pc = "idle" /\ pc' = "loop") =>
             /\ calls' = (IF closure' = None THEN 0 ELSE 1)
             /\ loss' = (IF closure' = None THEN None ELSE closure'.loss)
             /\ cur' = 1
             /\ \A i \in Params :
                   /\ heap'[PLoc(i)] = heap[PLoc(i)]
                   /\ momentum_buffer'[i] = momentum_buffer[i]
                   /\ momentum_buffer[i] # None =>
                         BufferIn(heap', momentum_buffer', i) = BufferIn(heap, momentum_buffer, i)
       /\ (pc = "loop" /\ pc' = "loop") => (calls' = calls /\ loss' = loss /\ closure' = closure)
       /\ (pc = "loop" /\ ret'.kind = "return") =>
             /\ calls = (IF closure = None THEN 0 ELSE 1)
             /\ ret'.value = (IF closure = None THEN None ELSE closure.loss)
      ]_vars

\* A step() with a closure has returned the closure's loss after updating a
\* parameter.
C3_Witness ==
    /\ ret.kind = "return"
    /\ ret.value = R(7)
    /\ \E i \in Params : heap[PLoc(i)] # pre.heap[PLoc(i)]

\* --- C4 ---------------------------------------------------------------
\* The hyperparameters of a group are ones the constructor's checks admit.
ValidGroup(g) ==
    /\ ~RLess(g.lr, R(0))
    /\ ~RLess(g.momentum, R(0))
    /\ ~RLess(g.weight_decay, R(0))
    /\ g.nesterov => (RLess(R(0), g.momentum) /\ g.dampening = R(0))

\* C4: construction produces an optimizer only if every group's effective
\* hyperparameters (the defaults, or the group's own overrides) satisfy
\* lr >= 0, momentum >= 0, weight_decay >= 0 and nesterov => (momentum > 0 and
\* dampening == 0); so every group of a constructed optimizer satisfies them.
C4_EveryGroupValidated ==
    pc = "idle" => \A gi \in 1..Len(param_groups) : ValidGroup(param_groups[gi])

\* --- C5 ---------------------------------------------------------------
\* e is the L2 norm of the elements xs.
IsNormOf(e, xs) ==
    /\ ~RLess(e, R(0))
    /\ RMul(e, e) = RSum([k \in 1..Len(xs) |-> RMul(xs[k], xs[k])])

\* The elements of slice o (1-based) along the first axis of x.
SliceOf(x, o) ==
    LET inner == Size(Tail(x.shape))
    IN  [k \in 1..inner |-> x.data[(o - 1) * inner + k]]

\* The elements of x at position j (1-based) of every slice along the first axis.
ColumnOf(x, j) ==
    LET inner == Size(Tail(x.shape))
    IN  [o \in 1..x.shape[1] |-> x.data[(o - 1) * inner + j]]

\* unitwise_norm(tp) came out with one L2 norm per slice along the first axis.
PerSliceNorm ==
    /\ ~tnorm.raised
    /\ tnorm.shape = <<tp.shape[1], 1, 1, 1>>
    /\ Len(tnorm.data) = tp.shape[1]
    /\ \A o \in 1..tp.shape[1] : IsNormOf(tnorm.data[o], SliceOf(tp, o))

\* C5 as stated: for every rank-4 x of shape (O,I,H,W), sizes of 1 included,
\* unitwise_norm(x) has shape (O,1,1,1) and entry o is the L2 norm of slice o.
C5_Rank4PerSliceAnySizes ==
    (pc = "norm" /\ Len(tp.shape) = 4) => PerSliceNorm

\* C5, amended: that holds when at least two of O, I, H, W are larger than 1;
\* a rank-4 x with at most one dimension larger than 1 is reduced as a vector,
\* over its first axis without keeping it: the result has shape (I,H,W) and its
\* entry j is the L2 norm of the O elements at position j of the slices.
C5_Rank4PerSliceUnlessVector ==
    (pc = "norm" /\ Len(tp.shape) = 4) =>
        IF Len(Squeeze(tp.shape)) >= 2
        THEN PerSliceNorm
        ELSE /\ ~tnorm.raised
             /\ tnorm.shape = Tail(tp.shape)
             /\ Len(tnorm.data) = Size(Tail(tp.shape))
             /\ \A j \in 1..Size(Tail(tp.shape)) : IsNormOf(tnorm.data[j], ColumnOf(tp, j))

\* The norm of a (2,2,1,2) tensor whose slices have norms 13 and 5.
C5_Witness ==
    /\ pc = "norm"
    /\ tp.shape = <<2, 2, 1, 2>>
    /\ tnorm.shape = <<2, 1, 1, 1>>
    /\ tnorm.data = <<R(13), R(5)>>

\* --- C6 ---------------------------------------------------------------
\* Parameter i had a gradient when the loop of this step() began, in a group
\* that clips.
ClippedWithGradient(i) == pre.grad[i] # None /\ GroupOf(i).clipping # None

\* The position of parameter i in the order of the loops.
PositionOf(i) == CHOOSE k \in 1..Len(Order) : Order[k].param = i

\* unitwise_norm has no branch for the shape: more than one dimension is
\* larger than 1 and the rank is not 2, 3 or 4.
NoBranchFor(shape) == Len(Squeeze(shape)) >= 2 /\ Len(shape) \notin {2, 3, 4}

\* C6 as stated: with clipping enabled, a parameter with a gradient whose rank
\* is outside {1,2,3,4} makes step() raise instead of finishing.
C6_RaisesOutsideRank1To4 ==
    ret.kind = "return" =>
        ~\E i \in Params : ClippedWithGradient(i) /\ Len(ShapeOf[i]) \notin {1, 2, 3, 4}

\* C6, amended: step() raises exactly for a clipped parameter with a gradient
\* whose rank is outside {2,3,4} and which has more than one dimension larger
\* than 1 (a scalar, like any tensor with at most one such dimension, is
\* clipped as a vector); the raise itself changes nothing, the failing
\* parameter's value and buffer are as before the step, the parameters before
\* it in the order are as their passes left them and those after it as before
\* the step.
C6_RaisesWithoutBranch ==
    /\ [](ret.kind = "return" =>
            ~\E i \in Params : ClippedWithGradient(i) /\ NoBranchFor(ShapeOf[i]))
    /\ [](ret.kind = "ValueError" =>
            /\ ClippedWithGradient(ret.at)
            /\ NoBranchFor(ShapeOf[ret.at])
            /\ \A j \in Params : PositionOf(j) >= PositionOf(ret.at) => Untouched(j))
    /\ [][ret'.kind = "ValueError" =>
            /\ pc = "loop" /\ pc' = "idle"
            /\ heap' = heap
            /\ momentum_buffer' = momentum_buffer]_vars

\* step() has raised for the rank-5 parameter: the vector before it is
\* updated, the scalar after it has its gradient and its old value.
C6_Witness ==
    /\ ret.kind = "ValueError"
    /\ ret.at = 2
    /\ heap[PLoc(1)] # pre.heap[PLoc(1)]
    /\ pre.grad[3] # None
    /\ heap[PLoc(3)] = pre.heap[PLoc(3)]

\* --- C7 ---------------------------------------------------------------
\* The clipping stage has run on (tp, tg) with clipping enabled and no error.
Clipped == pc = "clipped" /\ tclip # None /\ ~tout.raised

\* The unitwise norms of the parameter and of the gradient handed to the stage.
Norms == [p |-> unitwise_norm(tp).data, g |-> unitwise_norm(tg)]

\* The unitwise norms of the gradient the stage returned.
ReturnedNorms == unitwise_norm([shape |-> tg.shape, data |-> tout.data]).data

\* The unit (1-based) that element k of the gradient belongs to.
UnitOfElement(n, k) == Broadcast(k - 1, tg.shape, n.g.shape) + 1

Units(n) == 1..Len(n.g.data)

\* max(unitwise_norm(p), eps) * clip_factor of unit u
MaxNormOf(n, u) == RMul(RMax(n.p[u], teps), tclip)

\* The claim's trigger: grad_norm > max(unitwise_norm(p), eps) * clip_factor
Triggered(n, u) == RLess(MaxNormOf(n, u), n.g.data[u])

\* Every element of a triggered unit is multiplied by one factor, and every
\* element of a unit that is not triggered is returned as it was.
OneFactorPerUnit(n) ==
    /\ \A k \in 1..Len(tg.data) :
          ~Triggered(n, UnitOfElement(n, k)) => tout.data[k] = tg.data[k]
    /\ \A k \in 1..Len(tg.data) :
          (Triggered(n, UnitOfElement(n, k)) /\ tg.data[k] = R(0)) => tout.data[k] = R(0)
    /\ \A k, m \in 1..Len(tg.data) :
          ( /\ UnitOfElement(n, k) = UnitOfElement(n, m)
            /\ Triggered(n, UnitOfElement(n, k))
            /\ tg.data[k] # R(0) /\ tg.data[m] # R(0) ) =>
          RDiv(tout.data[k], tg.data[k]) = RDiv(tout.data[m], tg.data[m])

\* C7 as stated: for every p, g, clip factor and eps, the returned gradient of
\* a triggered unit has L2 norm max(unitwise_norm(p), eps) * clip_factor
\* exactly; its elements share one factor, and the other units are unchanged.
C7_TriggeredNormIsMaxNorm ==
    Clipped =>
        LET n == Norms
            r == ReturnedNorms
        IN  /\ \A u \in Units(n) : Triggered(n, u) => r[u] = MaxNormOf(n, u)
            /\ OneFactorPerUnit(n)

\* C7, amended: the returned norm of a triggered unit is never larger than
\* |max_norm|; it equals |max_norm| when the unit's gradient norm is at least
\* 1e-6, and is |max_norm| * grad_norm / 1e-6, which is smaller, when the
\* gradient norm is below the 1e-6 floor (max_norm is negative, and every unit
\* triggered, when the clip factor is negative).  The elements of a triggered
\* unit share one factor and the other units are returned unchanged.
C7_TriggeredNormUpToFloor ==
    Clipped =>
        LET n == Norms
            r == ReturnedNorms
        IN  /\ \A u \in Units(n) :
                  Triggered(n, u) =>
                      /\ ~RLess(RAbs(MaxNormOf(n, u)), r[u])
                      /\ r[u] = IF RLess(n.g.data[u], Tiny)
                                THEN RMul(RAbs(MaxNormOf(n, u)), RDiv(n.g.data[u], Tiny))
                                ELSE RAbs(MaxNormOf(n, u))
            /\ OneFactorPerUnit(n)

\* A (2,2) gradient clipped with factor 0.5: one row is triggered and comes
\* back with norm max_norm, the other row is not and comes back unchanged.
C7_Witness ==
    /\ Clipped
    /\ tclip = Half
    /\ tg.shape = <<2, 2>>
    /\ LET n == Norms
           r == ReturnedNorms
       IN  /\ \E u \in Units(n) :
                 /\ Triggered(n, u)
                 /\ ~RLess(n.g.data[u], Tiny)
                 /\ r[u] = MaxNormOf(n, u)
                 /\ RLess(r[u], n.g.data[u])
           /\ \E u \in Units(n) : ~Triggered(n, u) /\ n.g.data[u] # R(0)

\* --- C8 ---------------------------------------------------------------
\* The clipping stage has run, without error, with clip factor 1e6 and the
\* default eps (and perhaps again on its own output).
ClippedHuge ==
    /\ pc \in {"clipped", "reclipped"}
    /\ tclip = R(1000000)
    /\ teps = DefaultEps
    /\ ~tout.raised

AllNonzero(x) == \A k \in 1..Len(x.data) : x.data[k] # R(0)

\* C8 as stated: with clip factor 1e6 and the default eps no unit of a finite
\* nonzero p and g is triggered, the stage returns g, and again on the output.
C8_HugeFactorNeverTriggers ==
    (ClippedHuge /\ AllNonzero(tp) /\ AllNonzero(tg)) =>
        LET n == Norms
        IN  /\ \A u \in Units(n) : ~Triggered(n, u)
            /\ tout.data = tg.data
            /\ pc = "reclipped" => tout2.data = tg.data

\* C8, amended: with clip factor 1e6 and the default eps the stage returns g
\* unchanged when no unit's gradient norm exceeds 1e6 * max(unitwise_norm(p),
\* eps), as for every gradient norm up to 1000; a finite nonzero gradient
\* above that is triggered and rescaled.  In both cases the stage applied to
\* its own output returns that output.
C8_HugeFactorWithinBound ==
    ClippedHuge =>
        LET n == Norms
        IN  /\ (\A u \in Units(n) :
                   ~RLess(RMul(RMax(n.p[u], DefaultEps), R(1000000)), n.g.data[u]))
                  => tout.data = tg.data
            /\ (\A u \in Units(n) : ~RLess(R(1000), n.g.data[u])) => tout.data = tg.data
            /\ (\E u \in Units(n) :
                   RLess(RMul(RMax(n.p[u], DefaultEps), R(1000000)), n.g.data[u]))
                  => tout.data # tg.data
            /\ pc = "reclipped" => (~tout2.raised /\ tout2.data = tout.data)

\* Clipping with factor 1e6 has returned a nonzero gradient of norm 1000 or
\* more unchanged, twice.
C8_Witness ==
    /\ ClippedHuge
    /\ pc = "reclipped"
    /\ AllNonzero(tp) /\ AllNonzero(tg)
    /\ \E u \in Units(Norms) : ~RLess(Norms.g.data[u], R(1000))
    /\ tout.data = tg.data
    /\ tout2.data = tg.data

\* --- C9 ---------------------------------------------------------------
\* This transition is parameter i's first pass with momentum: no buffer yet.
FirstMomentumPass(i) == MomentumPass(i) /\ momentum_buffer[i] = None

\* C9 as stated: on the first pass the new buffer is a copy of d, without
\* dampening, and is itself the combined gradient, so that the update is
\* p - lr * d for every setting of nesterov and dampening.
C9_FirstUpdateIsPlain ==
    [][\A i \in Params :
          FirstMomentumPass(i) =>
              /\ BufferIn(heap', momentum_buffer', i) = Direction(i)
              /\ heap'[PLoc(i)] = Add(heap[PLoc(i)], Direction(i), RNeg(GroupOf(i).lr))
      ]_vars

\* C9, amended: on the first pass the new buffer is a copy of d, without
\* dampening, for every setting of nesterov and dampening; without nesterov the
\* buffer is the combined gradient and the update is p - lr * d; with nesterov
\* the combined gradient is d + momentum * buffer = (1 + momentum) * d and the
\* update is p - lr * (1 + momentum) * d.
C9_FirstUpdateByNesterov ==
    [][\A i \in Params :
          FirstMomentumPass(i) =>
              /\ BufferIn(heap', momentum_buffer', i) = Direction(i)
              /\ heap'[PLoc(i)] =
                    Add(heap[PLoc(i)],
                        IF GroupOf(i).nesterov
                        THEN Mul(Direction(i), RAdd(R(1), GroupOf(i).momentum))
                        ELSE Direction(i),
                        RNeg(GroupOf(i).lr))
      ]_vars

\* The scalar 2.0 after its first pass with gradient 1.0, lr 0.1, momentum 0.9,
\* nesterov and dampening 0.5: the buffer is 1.0 and the value 2.0 - 0.1 * 1.9.
C9_Witness ==
    /\ GroupOf(3).nesterov
    /\ GroupOf(3).dampening = Half
    /\ steps = 1
    /\ momentum_buffer[3] # None
    /\ BufferIn(heap, momentum_buffer, 3) = <<R(1)>>
    /\ heap[PLoc(3)] = << <<181, 100>> >>

\* --- C10 --------------------------------------------------------------
\* C10: a momentum buffer shares no storage with a parameter or a gradient:
\* its storage is neither; no pass of the loop changes a gradient; and outside
\* a parameter's own pass (when the training loop rewrites or zeroes the
\* gradients in place, or a closure does) its buffer keeps its value.
C10_BufferOwnsItsStorage ==
    /\ [](\A i \in Params :
            momentum_buffer[i] # None =>
                \A j \in Params : momentum_buffer[i] \notin {PLoc(j), GLoc(j)})
    /\ [][pc = "loop" =>
            \A i \in Params :
                /\ grad'[i] = grad[i]
                /\ grad[i] # None => heap'[grad[i]] = heap[grad[i]]]_vars
    /\ [][\A i \in Params :
            (momentum_buffer[i] # None /\ ~Visiting(i)) =>
                /\ momentum_buffer'[i] = momentum_buffer[i]
                /\ BufferIn(heap', momentum_buffer', i) = BufferIn(heap, momentum_buffer, i)]_vars

\* Without clipping and weight decay the buffer was cloned from the gradient
\* itself; the gradient has since been zeroed in place and the buffer still
\* holds 1.0.
C10_Witness ==
    /\ GroupOf(3).clipping = None
    /\ GroupOf(3).weight_decay = R(0)
    /\ pc = "idle"
    /\ momentum_buffer[3] # None
    /\ BufferIn(heap, momentum_buffer, 3) = <<R(1)>>
    /\ grad[3] # None
    /\ heap[grad[3]] = <<R(0)>>
====
